---- MODULE Spec2Model ----
(***************************************************************************)
(* Model of the geometric core of src/generateDST_utils.py:                *)
(*   get_segments_intersection  (lines 12-107)                             *)
(*   stitch_path                (lines 367-501)                            *)
(* Coordinates are exact rationals.  A computed point is a homogeneous     *)
(* triple <<X, Y, W>> with W > 0 and gcd(X, Y, W) = 1, standing for        *)
(* (X/W, Y/W); control points are integer pairs <<x, y>>.  The value None  *)
(* of the source is the empty tuple.                                       *)
(***************************************************************************)
EXTENDS Integers, Sequences, FiniteSets, TLC

VARIABLES
    x_all, y_all,          \* control points of every path (stitch_path arguments)
    pitch,                 \* <<num, den>>, den > 0: the pitch handed to every call
    min_num,               \* min_num_stitches_per_segment
    pattern,               \* the stitches held by the pattern object, in order
    status,                \* outcome of the last stitch_path call
    ret,                   \* stitch list the last call returned
    plan,                  \* per segment of the last call: waypoints and gap fills
    returned,              \* history: the stitch lists returned so far, in call order
    calls,                 \* number of stitch_path calls made on the pattern
    planned,               \* path_index of the last call (0 before the first)
    budget,                \* number of calls the caller makes
    svg_paths,             \* the polylines parsed from the SVG file, as point lists
    scale,                 \* extract_paths_from_svg argument
    remove_duplicates,     \* extract_paths_from_svg argument
    endpoints_1, endpoints_2,   \* arguments of get_segments_intersection
    result                 \* what get_segments_intersection returned

vars == <<x_all, y_all, pitch, min_num, pattern, status, ret, plan, returned,
          calls, planned, budget, svg_paths, scale, remove_duplicates,
          endpoints_1, endpoints_2, result>>

\* ---------------------------------------------------------------- bounds
MaxCoordI == 3
MaxCoord == 2
MaxPts == 3
MaxCalls == 2
MaxMin == 1

\* ------------------------------------------------------- exact arithmetic
None == <<>>

Abs(n) == IF n < 0 THEN -n ELSE n

Max(a, b) == IF a >= b THEN a ELSE b

RECURSIVE GCD(_, _)
GCD(a, b) == IF b = 0 THEN a ELSE GCD(b, a % b)

\* canonical form of the homogeneous point <<X, Y, W>>, W # 0
Norm(h) ==
    LET sg == IF h[3] < 0 THEN -1 ELSE 1
        g  == GCD(GCD(Abs(h[1]), Abs(h[2])), Abs(h[3]))
    IN  <<(sg * h[1]) \div g, (sg * h[2]) \div g, (sg * h[3]) \div g>>

Pt(c) == <<c[1], c[2], 1>>

\* a0 + (n/d) * (a1 - a0) for homogeneous points a0, a1 and the ratio n/d, d # 0
Lerp(a0, a1, n, d) ==
    Norm(<<a0[1] * a1[3] * (d - n) + a1[1] * a0[3] * n,
           a0[2] * a1[3] * (d - n) + a1[2] * a0[3] * n,
           a0[3] * a1[3] * d>>)

RECURSIVE SumPts(_)
SumPts(ps) ==
    IF Len(ps) = 1 THEN ps[1]
    ELSE LET a == ps[1]
             b == SumPts(Tail(ps))
         IN  <<a[1] * b[3] + b[1] * a[3], a[2] * b[3] + b[2] * a[3], a[3] * b[3]>>

\* np.mean(points, axis=0)
Mean(ps) ==
    LET s == SumPts(ps)
    IN  Norm(<<s[1], s[2], s[3] * Len(ps)>>)

Sub(a, b) == <<a[1] - b[1], a[2] - b[2]>>

Add(a, b) == <<a[1] + b[1], a[2] + b[2]>>

\* np.cross of two 2-vectors
Cross(u, v) == u[1] * v[2] - u[2] * v[1]

Dot(u, v) == u[1] * v[1] + u[2] * v[2]

\* 0 <= n/d <= 1 as floating point decides it: a ratio with d = 0 is nan
\* (here n = 0 whenever d = 0) and every comparison with nan is false
InUnit(n, d) ==
    IF d = 0 THEN FALSE
    ELSE IF d > 0 THEN 0 <= n /\ n <= d
    ELSE d <= n /\ n <= 0

\* ------------------------------------------- get_segments_intersection
\* ColinearPoints with the endpoints of the first segment left out
ColinearPoints_OnlyQ(p, r, q, s) ==
    LET rr == Dot(r, r)
        q_in_pFrame_0 == Dot(Sub(q, p), r)
        q_in_pFrame_1 == Dot(Sub(Add(q, s), p), r)
        P(n) == Lerp(Pt(p), Pt(Add(p, r)), n, rr)
    IN  (IF InUnit(q_in_pFrame_0, rr) THEN <<P(q_in_pFrame_0)>> ELSE <<>>)
        \o (IF InUnit(q_in_pFrame_1, rr) THEN <<P(q_in_pFrame_1)>> ELSE <<>>)

\* ColinearPoints with the upper end of the [0,1] test forgotten
ColinearPoints_NoUpper(p, r, q, s) ==
    LET rr == Dot(r, r)
        ss == Dot(s, s)
        q_in_pFrame_0 == Dot(Sub(q, p), r)
        q_in_pFrame_1 == Dot(Sub(Add(q, s), p), r)
        p_in_qFrame_0 == Dot(Sub(p, q), s)
        p_in_qFrame_1 == Dot(Sub(Add(p, r), q), s)
        P(n) == Lerp(Pt(p), Pt(Add(p, r)), n, rr)
        Q(n) == Lerp(Pt(q), Pt(Add(q, s)), n, ss)
        Ge0(n, d) == d > 0 /\ n >= 0
    IN  (IF Ge0(q_in_pFrame_0, rr) THEN <<P(q_in_pFrame_0)>> ELSE <<>>)
        \o (IF Ge0(q_in_pFrame_1, rr) THEN <<P(q_in_pFrame_1)>> ELSE <<>>)
        \o (IF Ge0(p_in_qFrame_0, ss) THEN <<Q(p_in_qFrame_0)>> ELSE <<>>)
        \o (IF Ge0(p_in_qFrame_1, ss) THEN <<Q(p_in_qFrame_1)>> ELSE <<>>)

\* the colinear branch: the endpoints of each segment that lie on the other
ColinearPoints(p, r, q, s) ==
    LET rr == Dot(r, r)
        ss == Dot(s, s)
        q_in_pFrame_0 == Dot(Sub(q, p), r)
        q_in_pFrame_1 == Dot(Sub(Add(q, s), p), r)
        p_in_qFrame_0 == Dot(Sub(p, q), s)
        p_in_qFrame_1 == Dot(Sub(Add(p, r), q), s)
        P(n) == Lerp(Pt(p), Pt(Add(p, r)), n, rr)
        Q(n) == Lerp(Pt(q), Pt(Add(q, s)), n, ss)
    IN  (IF InUnit(q_in_pFrame_0, rr) THEN <<P(q_in_pFrame_0)>> ELSE <<>>)
        \o (IF InUnit(q_in_pFrame_1, rr) THEN <<P(q_in_pFrame_1)>> ELSE <<>>)
        \o (IF InUnit(p_in_qFrame_0, ss) THEN <<Q(p_in_qFrame_0)>> ELSE <<>>)
        \o (IF InUnit(p_in_qFrame_1, ss) THEN <<Q(p_in_qFrame_1)>> ELSE <<>>)

\* get_segments_intersection with the test of u forgotten in the crossing branch
get_segments_intersection_NoU(e1, e2) ==
    LET p == e1[1]
        r == Sub(e1[2], e1[1])
        q == e2[1]
        s == Sub(e2[2], e2[1])
        rs == Cross(r, s)
        qpr == Cross(Sub(q, p), r)
        qps == Cross(Sub(q, p), s)
    IN  IF rs = 0 /\ qpr = 0
        THEN LET intersection_points == ColinearPoints(p, r, q, s)
             IN  [point |-> IF Len(intersection_points) = 0 THEN None
                            ELSE Mean(intersection_points),
                  colinear |-> TRUE, parallel |-> FALSE,
                  divzero |-> (Dot(r, r) = 0 \/ Dot(s, s) = 0),
                  npoints |-> Len(intersection_points)]
        ELSE IF rs = 0 /\ qpr # 0
        THEN [point |-> None, colinear |-> FALSE, parallel |-> TRUE,
              divzero |-> FALSE, npoints |-> 0]
        ELSE [point |-> IF InUnit(qps, rs)
                        THEN Lerp(Pt(p), Pt(Add(p, r)), qps, rs)
                        ELSE None,
              colinear |-> FALSE, parallel |-> FALSE,
              divzero |-> FALSE, npoints |-> 0]

\* The whole function.  point: the intersection or None; colinear, parallel:
\* scenario_info; divzero: a division by zero was evaluated on the way;
\* npoints: len(intersection_points) of the colinear branch.
get_segments_intersection(e1, e2) ==
    LET p == e1[1]
        r == Sub(e1[2], e1[1])
        q == e2[1]
        s == Sub(e2[2], e2[1])
        rs == Cross(r, s)
        qpr == Cross(Sub(q, p), r)
        qps == Cross(Sub(q, p), s)
    IN  IF rs = 0 /\ qpr = 0
        THEN LET intersection_points == ColinearPoints(p, r, q, s)
             IN  [point |-> IF Len(intersection_points) = 0 THEN None
                            ELSE Mean(intersection_points),
                  colinear |-> TRUE, parallel |-> FALSE,
                  divzero |-> (Dot(r, r) = 0 \/ Dot(s, s) = 0),
                  npoints |-> Len(intersection_points)]
        ELSE IF rs = 0 /\ qpr # 0
        THEN [point |-> None, colinear |-> FALSE, parallel |-> TRUE,
              divzero |-> FALSE, npoints |-> 0]
        ELSE [point |-> IF InUnit(qps, rs) /\ InUnit(qpr, rs)
                        THEN Lerp(Pt(p), Pt(Add(p, r)), qps, rs)
                        ELSE None,
              colinear |-> FALSE, parallel |-> FALSE,
              divzero |-> FALSE, npoints |-> 0]

NoResult == [called |-> FALSE, point |-> None, colinear |-> FALSE,
             parallel |-> FALSE, divzero |-> FALSE, npoints |-> 0]

\* ---------------------------------------------- extract_paths_from_svg
\* lines 262-265: paths of at most one point are ignored
NonEmptyPaths(paths) == SelectSeq(paths, LAMBDA path : ~(Len(path) <= 1))

\* lines 266-267 and 336-339: x = point.x * scale, y = -point.y * scale
ScaledX(path, sc) == [j \in 1..Len(path) |-> path[j][1] * sc]

ScaledY(path, sc) == [j \in 1..Len(path) |-> (-path[j][2]) * sc]

\* UniqueIndexes comparing the x coordinates alone
UniqueIndexes_XOnly(x, y) ==
    SelectSeq([j \in 1..Len(x) |-> j],
              LAMBDA point_index :
                  point_index = 1 \/ ~(x[point_index] = x[point_index - 1]))

\* lines 348-359: the first point and every point that does not duplicate
\* the point before it in the original list
UniqueIndexes(x, y) ==
    SelectSeq([j \in 1..Len(x) |-> j],
              LAMBDA point_index :
                  point_index = 1 \/ ~(x[point_index] = x[point_index - 1]
                                        /\ y[point_index] = y[point_index - 1]))

\* lines 345-359 for one path: <<x_all_unique[path_index], y_all_unique[path_index]>>
RemoveDuplicates(x, y) ==
    LET kept == UniqueIndexes(x, y)
    IN  <<[k \in 1..Len(kept) |-> x[kept[k]]], [k \in 1..Len(kept) |-> y[kept[k]]]>>

\* lines 246-364 with target_units = None: <<x_all, y_all>>
extract_paths_from_svg(paths, sc, rd) ==
    LET kept == NonEmptyPaths(paths)
        xs == [i \in 1..Len(kept) |-> ScaledX(kept[i], sc)]
        ys == [i \in 1..Len(kept) |-> ScaledY(kept[i], sc)]
    IN  IF rd
        THEN <<[i \in 1..Len(kept) |-> RemoveDuplicates(xs[i], ys[i])[1]],
               [i \in 1..Len(kept) |-> RemoveDuplicates(xs[i], ys[i])[2]]>>
        ELSE <<xs, ys>>

ExtractorIdle ==
    /\ svg_paths = <<>>
    /\ scale = 1
    /\ remove_duplicates = TRUE

\* ------------------------------------------ the intersector on its own
GridI == (0..MaxCoordI) \X (0..MaxCoordI)

SegmentsI == GridI \X GridI

PlannerIdle ==
    /\ x_all = <<>> /\ y_all = <<>>
    /\ pitch = <<1, 1>> /\ min_num = 1
    /\ pattern = <<>> /\ status = "idle" /\ ret = <<>>
    /\ plan = <<>> /\ returned = <<>>
    /\ calls = 0 /\ planned = 0 /\ budget = 0

InitInt ==
    /\ PlannerIdle
    /\ ExtractorIdle
    /\ endpoints_1 \in SegmentsI
    /\ endpoints_2 \in SegmentsI
    /\ result = NoResult

Intersect ==
    /\ ~result.called
    /\ result' = [called |-> TRUE] @@ get_segments_intersection(endpoints_1, endpoints_2)
    /\ UNCHANGED <<x_all, y_all, pitch, min_num, pattern, status, ret, plan,
                   returned, calls, planned, budget, svg_paths, scale,
                   remove_duplicates, endpoints_1, endpoints_2>>

NextInt == Intersect

SpecInt == InitInt /\ [][NextInt]_vars

\* --------------------------------------------------------- stitch_path
\* segment k of path i as a pair of control points
SegOf(xa, ya, i, k) ==
    <<<<xa[i][k], ya[i][k]>>, <<xa[i][k + 1], ya[i][k + 1]>>>>

\* lines 417-432: the intersections of segment S with segments j.. of path o
RECURSIVE PathHits(_, _, _, _, _)
PathHits(xa, ya, S, o, j) ==
    IF j > Len(xa[o]) - 1 THEN <<>>
    ELSE LET intersection == get_segments_intersection(S, SegOf(xa, ya, o, j)).point
         IN  (IF intersection # None THEN <<intersection>> ELSE <<>>)
             \o PathHits(xa, ya, S, o, j + 1)

\* lines 413-432: the intersections of S with every path o.. other than path_index
RECURSIVE AllHits(_, _, _, _, _)
AllHits(xa, ya, S, path_index, o) ==
    IF o > Len(xa) THEN <<>>
    ELSE (IF o = path_index THEN <<>> ELSE PathHits(xa, ya, S, o, 1))
         \o AllHits(xa, ya, S, path_index, o + 1)

\* lines 405-435: start, intersections in discovery order, end
SegmentPoints(xa, ya, path_index, k) ==
    LET S == SegOf(xa, ya, path_index, k)
    IN  <<Pt(S[1])>> \o AllHits(xa, ya, S, path_index, 1) \o <<Pt(S[2])>>

\* lines 439-446
SortDirection(from, to) == IF to > from THEN 1 ELSE -1

\* a sorts strictly before b under the keys (xd * x, yd * y), x first
KeyLess(a, b, xd, yd) ==
    LET ax == xd * a[1] * b[3]
        bx == xd * b[1] * a[3]
        ay == yd * a[2] * b[3]
        by == yd * b[2] * a[3]
    IN  ax < bx \/ (ax = bx /\ ay < by)

RECURSIVE InsertLast(_, _, _, _)
InsertLast(t, e, xd, yd) ==
    IF t = <<>> THEN <<e>>
    ELSE IF KeyLess(e, t[Len(t)], xd, yd)
    THEN InsertLast(SubSeq(t, 1, Len(t) - 1), e, xd, yd) \o <<t[Len(t)]>>
    ELSE t \o <<e>>

\* lines 447-450: np.lexsort is a stable sort on (x key, then y key)
RECURSIVE LexSort(_, _, _)
LexSort(ps, xd, yd) ==
    IF Len(ps) <= 1 THEN ps
    ELSE InsertLast(LexSort(SubSeq(ps, 1, Len(ps) - 1), xd, yd), ps[Len(ps)], xd, yd)

SortedSegmentPoints(xa, ya, path_index, k) ==
    LET S == SegOf(xa, ya, path_index, k)
    IN  LexSort(SegmentPoints(xa, ya, path_index, k),
                SortDirection(S[1][1], S[2][1]), SortDirection(S[1][2], S[2][2]))

\* squared distance between two rational points as <<numerator, denominator>>
Dist2(a, b) ==
    LET dx == b[1] * a[3] - a[1] * b[3]
        dy == b[2] * a[3] - a[2] * b[3]
    IN  <<dx * dx + dy * dy, (a[3] * b[3]) * (a[3] * b[3])>>

\* FloorCount with the comparison made strict
RECURSIVE FloorCount_Strict(_, _, _)
FloorCount_Strict(from, N, M) ==
    IF (from + 1) * (from + 1) * M < N THEN FloorCount_Strict(from + 1, N, M) ELSE from

\* the largest n >= from with n * n * M <= N
RECURSIVE FloorCount(_, _, _)
FloorCount(from, N, M) ==
    IF (from + 1) * (from + 1) * M <= N THEN FloorCount(from + 1, N, M) ELSE from

\* the smallest n >= from with n * n * M >= N
RECURSIVE CeilCount(_, _, _)
CeilCount(from, N, M) ==
    IF from * from * M >= N THEN from ELSE CeilCount(from + 1, N, M)

\* FitStitches with the "- 1" of line 469 forgotten
FitStitches_NoMinusOne(a, b, pt) ==
    LET d2 == Dist2(a, b)
        N == d2[1] * pt[2] * pt[2]
        M == d2[2] * pt[1] * pt[1]
    IN  IF pt[1] > 0 THEN FloorCount(0, N, M)
        ELSE -CeilCount(0, N, M)

\* line 469: floor(distance / pitch) - 1, for a pitch pt = <<num, den>>, num # 0
FitStitches(a, b, pt) ==
    LET d2 == Dist2(a, b)
        N == d2[1] * pt[2] * pt[2]
        M == d2[2] * pt[1] * pt[1]
    IN  IF pt[1] > 0 THEN FloorCount(0, N, M) - 1
        ELSE -CeilCount(0, N, M) - 1

\* NumStitches with min in place of the max of line 471
NumStitches_Min(a, b, pt, mn) ==
    IF mn <= FitStitches(a, b, pt) THEN mn ELSE FitStitches(a, b, pt)

\* lines 469-471
NumStitches(a, b, pt, mn) == Max(mn, FitStitches(a, b, pt))

\* GapStitches with the "[1:]" of line 473 forgotten: the ratios start at 0
GapStitches_FromZero(a, b, pt, mn) ==
    LET num_stitches == NumStitches(a, b, pt, mn)
    IN  [stitch_index \in 1..num_stitches |->
            Lerp(a, b, stitch_index - 1, num_stitches + 1)]

\* lines 473-478: the stitches strictly inside the gap a..b
GapStitches(a, b, pt, mn) ==
    LET num_stitches == NumStitches(a, b, pt, mn)
    IN  [stitch_index \in 1..num_stitches |->
            Lerp(a, b, stitch_index, num_stitches + 1)]

RECURSIVE Flatten(_)
Flatten(ss) == IF ss = <<>> THEN <<>> ELSE ss[1] \o Flatten(Tail(ss))

\* PlanSegment with the closing stitch of lines 491-493 forgotten
PlanSegment_NoClosing(xa, ya, path_index, k, pt, mn) ==
    LET S == SegOf(xa, ya, path_index, k)
        w == SortedSegmentPoints(xa, ya, path_index, k)
        fills == [g \in 1..(Len(w) - 1) |-> GapStitches(w[g], w[g + 1], pt, mn)]
    IN  [S |-> S, waypoints |-> w, fills |-> fills,
         stitches |-> <<Pt(S[1])>> \o Flatten(fills)]

\* lines 403-493, one iteration of the loop over the control points
PlanSegment(xa, ya, path_index, k, pt, mn) ==
    LET S == SegOf(xa, ya, path_index, k)
        w == SortedSegmentPoints(xa, ya, path_index, k)
        fills == [g \in 1..(Len(w) - 1) |-> GapStitches(w[g], w[g + 1], pt, mn)]
        closing == IF k = Len(xa[path_index]) - 1 THEN <<Pt(S[2])>> ELSE <<>>
    IN  [S |-> S, waypoints |-> w, fills |-> fills,
         stitches |-> <<Pt(S[1])>> \o Flatten(fills) \o closing]

\* lines 398-493: every segment of the path
PlanPath(xa, ya, path_index, pt, mn) ==
    [k \in 1..(Len(xa[path_index]) - 1) |-> PlanSegment(xa, ya, path_index, k, pt, mn)]

\* x_stitch, y_stitch at line 495
StitchList(pl) == Flatten([k \in 1..Len(pl) |-> pl[k].stitches])

\* StitchIt starting the pattern afresh with the new stitches
StitchIt_Overwrite(pat, stitches) == stitches

\* StitchIt putting the new stitches in front of the old ones
StitchIt_Prepend(pat, stitches) == stitches \o pat

\* lines 496-499: pattern.add_stitch_absolute for every stitch, in order
StitchIt(pat, stitches) == pat \o stitches

\* a pitch of 0 makes line 469 cast inf or nan to int; whichever integer the
\* cast produces, line 473 or 476 then raises before anything is returned
Raises(xa, path_index, pt) == pt[1] = 0 /\ Len(xa[path_index]) >= 2

StitchPath(path_index) ==
    /\ calls < budget
    /\ calls' = calls + 1
    /\ planned' = path_index
    /\ IF Raises(x_all, path_index, pitch)
       THEN /\ status' = "raised"
            /\ ret' = <<>>
            /\ plan' = <<>>
            /\ UNCHANGED <<pattern, returned>>
       ELSE LET pl == PlanPath(x_all, y_all, path_index, pitch, min_num)
                stitches == StitchList(pl)
            IN  /\ status' = "returned"
                /\ plan' = pl
                /\ ret' = stitches
                /\ pattern' = StitchIt(pattern, stitches)
                /\ returned' = Append(returned, stitches)
    /\ UNCHANGED <<x_all, y_all, pitch, min_num, budget, svg_paths, scale,
                   remove_duplicates, endpoints_1, endpoints_2, result>>

\* ------------------------------------------------------ planner inputs
Grid == (0..MaxCoord) \X (0..MaxCoord)

\* the corners of the unit square
UnitGrid == {0, 1} \X {0, 1}

Segs(G) == G \X G

Diagonals == {<<<<0, 0>>, <<1, 1>>>>, <<<<0, 1>>, <<1, 0>>>>}

Polys(G, n) == [1..n -> G]

\* The path sets planned, each with the number of calls its caller makes:
\*   one path alone: a segment of the grid, or up to MaxPts unit-square points;
\*   a grid segment with a unit-square segment or one-corner path beside it;
\*   two unit-square segments planned MaxCalls times;
\*   two unit-square segments and a diagonal of the square, three paths.
Inputs ==
    {[ps |-> <<p>>, budget |-> 1] :
        p \in Segs(Grid) \cup UNION {Polys(UnitGrid, n) : n \in 0..MaxPts}}
    \cup {[ps |-> <<p, q>>, budget |-> 1] :
        p \in Segs(Grid), q \in Segs(UnitGrid) \cup Polys(UnitGrid, 3)}
    \cup {[ps |-> <<p, q>>, budget |-> MaxCalls] :
        p \in Segs(UnitGrid), q \in Segs(UnitGrid)}
    \cup {[ps |-> <<p, q, r>>, budget |-> 1] :
        p \in Segs(UnitGrid), q \in Segs(UnitGrid), r \in Diagonals}

Pitches == {<<-1, 2>>, <<0, 1>>, <<1, 2>>, <<1, 1>>, <<3, 2>>}

IntersectorIdle ==
    /\ endpoints_1 = <<<<0, 0>>, <<0, 0>>>>
    /\ endpoints_2 = <<<<0, 0>>, <<0, 0>>>>
    /\ result = NoResult

Init ==
    /\ IntersectorIdle
    /\ ExtractorIdle
    /\ \E in \in Inputs :
          /\ x_all = [i \in 1..Len(in.ps) |-> [j \in 1..Len(in.ps[i]) |-> in.ps[i][j][1]]]
          /\ y_all = [i \in 1..Len(in.ps) |-> [j \in 1..Len(in.ps[i]) |-> in.ps[i][j][2]]]
          /\ budget = in.budget
    /\ pitch \in Pitches
    /\ min_num \in 0..MaxMin
    /\ pattern = <<>>
    /\ status = "idle"
    /\ ret = <<>>
    /\ plan = <<>>
    /\ returned = <<>>
    /\ calls = 0
    /\ planned = 0

Next == \E path_index \in 1..Len(x_all) : StitchPath(path_index)

Spec == Init /\ [][Next]_vars

\* ------------------------------------------- the extractor on its own
\* one or two parsed polylines of up to MaxPts unit-square points each
SvgPaths == UNION {Polys(UnitGrid, n) : n \in 0..MaxPts}

SvgPathSets == {<<a>> : a \in SvgPaths} \cup {<<a, b>> : a \in SvgPaths, b \in SvgPaths}

Scales == {1, 2}

InitExt ==
    /\ PlannerIdle
    /\ IntersectorIdle
    /\ svg_paths \in SvgPathSets
    /\ scale \in Scales
    /\ remove_duplicates \in BOOLEAN

Extract ==
    /\ status = "idle"
    /\ LET out == extract_paths_from_svg(svg_paths, scale, remove_duplicates)
       IN  /\ x_all' = out[1]
           /\ y_all' = out[2]
    /\ status' = "extracted"
    /\ UNCHANGED <<pitch, min_num, pattern, ret, plan, returned, calls, planned,
                   budget, svg_paths, scale, remove_duplicates,
                   endpoints_1, endpoints_2, result>>

NextExt == Extract

SpecExt == InitExt /\ [][NextExt]_vars

\* ------------------------------------- geometry the claims are stated in
\* orientation of c relative to the directed line a -> b
Orient(a, b, c) == Cross(Sub(b, a), Sub(c, a))

Sign(n) == IF n > 0 THEN 1 ELSE IF n < 0 THEN -1 ELSE 0

NonDegenerate(e) == e[1] # e[2]

AreColinear(e1, e2) ==
    Orient(e1[1], e1[2], e2[1]) = 0 /\ Orient(e1[1], e1[2], e2[2]) = 0

AreParallel(e1, e2) == Cross(Sub(e1[2], e1[1]), Sub(e2[2], e2[1])) = 0

\* two segments in general position share a point: each straddles the other's line
Straddle(e1, e2) ==
    /\ Sign(Orient(e1[1], e1[2], e2[1])) * Sign(Orient(e1[1], e1[2], e2[2])) <= 0
    /\ Sign(Orient(e2[1], e2[2], e1[1])) * Sign(Orient(e2[1], e2[2], e1[2])) <= 0

Min(a, b) == IF a <= b THEN a ELSE b

\* the rational point h lies on the closed segment e
OnSegment(h, e) ==
    LET r == Sub(e[2], e[1])
        d == <<h[1] - e[1][1] * h[3], h[2] - e[1][2] * h[3]>>
    IN  /\ Cross(d, r) = 0
        /\ 0 <= Dot(d, r)
        /\ Dot(d, r) <= h[3] * Dot(r, r)

\* the rational point h lies strictly inside the segment e
StrictlyInside(h, e) ==
    LET r == Sub(e[2], e[1])
        d == <<h[1] - e[1][1] * h[3], h[2] - e[1][2] * h[3]>>
    IN  /\ Cross(d, r) = 0
        /\ 0 < Dot(d, r)
        /\ Dot(d, r) < h[3] * Dot(r, r)

\* bounding box shared by two segments, coordinate k: <<low, high>>
BoxLow(e1, e2, k) == Max(Min(e1[1][k], e1[2][k]), Min(e2[1][k], e2[2][k]))

BoxHigh(e1, e2, k) == Min(Max(e1[1][k], e1[2][k]), Max(e2[1][k], e2[2][k]))

\* two colinear segments overlap exactly when their bounding boxes meet
Overlap(e1, e2) ==
    \A k \in 1..2 : BoxLow(e1, e2, k) <= BoxHigh(e1, e2, k)

InOverlapBox(h, e1, e2) ==
    \A k \in 1..2 : /\ BoxLow(e1, e2, k) * h[3] <= h[k]
                    /\ h[k] <= BoxHigh(e1, e2, k) * h[3]

\* centre of the overlap of two colinear overlapping segments
OverlapMidpoint(e1, e2) ==
    Norm(<<BoxLow(e1, e2, 1) + BoxHigh(e1, e2, 1),
           BoxLow(e1, e2, 2) + BoxHigh(e1, e2, 2), 2>>)

\* ------------------------------------------------ claims: intersector
\* C3: for two non-degenerate segments that are not colinear, a point is
\* returned exactly when the segments share a point, the returned point lies
\* on both segments, and a parallel pair returns None.
C3_CrossingPoint ==
    (result.called /\ NonDegenerate(endpoints_1) /\ NonDegenerate(endpoints_2)
        /\ ~AreColinear(endpoints_1, endpoints_2))
    => /\ (result.point # None) <=> Straddle(endpoints_1, endpoints_2)
       /\ result.point # None =>
             /\ OnSegment(result.point, endpoints_1)
             /\ OnSegment(result.point, endpoints_2)
       /\ AreParallel(endpoints_1, endpoints_2) => result.point = None

\* C3 witness: a crossing strictly inside both segments, off the grid
C3_Witness ==
    /\ result.called
    /\ NonDegenerate(endpoints_1) /\ NonDegenerate(endpoints_2)
    /\ ~AreColinear(endpoints_1, endpoints_2)
    /\ result.point # None
    /\ result.point[3] > 1
    /\ StrictlyInside(result.point, endpoints_1)
    /\ StrictlyInside(result.point, endpoints_2)

\* C4: for two non-degenerate colinear segments, a point inside the bounding
\* box of the overlap is returned when they overlap (touching included) and
\* None when they are disjoint.
C4_ColinearOverlap ==
    (result.called /\ NonDegenerate(endpoints_1) /\ NonDegenerate(endpoints_2)
        /\ AreColinear(endpoints_1, endpoints_2))
    => IF Overlap(endpoints_1, endpoints_2)
       THEN /\ result.point # None
            /\ InOverlapBox(result.point, endpoints_1, endpoints_2)
       ELSE result.point = None

\* C4 witness: a partial overlap of two colinear segments, neither inside the
\* other, answered with a point
C4_Witness ==
    /\ result.called
    /\ NonDegenerate(endpoints_1) /\ NonDegenerate(endpoints_2)
    /\ AreColinear(endpoints_1, endpoints_2)
    /\ Overlap(endpoints_1, endpoints_2)
    /\ ~OnSegment(Pt(endpoints_1[1]), endpoints_2)
    /\ ~OnSegment(Pt(endpoints_2[2]), endpoints_1)
    /\ result.point # None
    /\ result.point # Pt(endpoints_1[2])

\* C5 (as claimed): whenever two colinear segments overlap the midpoint of
\* the overlap is returned, with exactly 2 endpoints on the other segment
\* when they overlap and 0 otherwise.
C5_MidpointOfOverlap ==
    (result.called /\ NonDegenerate(endpoints_1) /\ NonDegenerate(endpoints_2)
        /\ AreColinear(endpoints_1, endpoints_2))
    => IF Overlap(endpoints_1, endpoints_2)
       THEN /\ result.npoints = 2
            /\ result.point = OverlapMidpoint(endpoints_1, endpoints_2)
       ELSE result.npoints = 0

\* C6 (as claimed): a zero-length segment is answered with None and no
\* division by zero is evaluated.
C6_DegenerateIsNone ==
    (result.called /\ (~NonDegenerate(endpoints_1) \/ ~NonDegenerate(endpoints_2)))
    => /\ result.point = None
       /\ ~result.divzero

\* --------------------------------------------------- claims: planner
Range(f) == {f[i] : i \in DOMAIN f}

PitchPositive == pitch[1] > 0

\* the control points of path i as rational points
ControlPoints(i) == [j \in 1..Len(x_all[i]) |-> <<x_all[i][j], y_all[i][j], 1>>]

\* c is a subsequence of r: greedy matching from the left
RECURSIVE IsSubseq(_, _)
IsSubseq(c, r) ==
    IF c = <<>> THEN TRUE
    ELSE IF r = <<>> THEN FALSE
    ELSE IF c[1] = r[1] THEN IsSubseq(Tail(c), Tail(r))
    ELSE IsSubseq(c, Tail(r))

\* the segments of every path other than path i
OtherSegs(i) ==
    UNION {{SegOf(x_all, y_all, o, j) : j \in 1..(Len(x_all[o]) - 1)} :
              o \in (1..Len(x_all)) \ {i}}

\* S and T cross at one point strictly inside both of them
ProperCrossing(S, T) ==
    /\ Sign(Orient(S[1], S[2], T[1])) * Sign(Orient(S[1], S[2], T[2])) < 0
    /\ Sign(Orient(T[1], T[2], S[1])) * Sign(Orient(T[1], T[2], S[2])) < 0

\* the rational point h lies strictly between the distinct rational points a, b
Between(h, a, b) ==
    LET ux == b[1] * a[3] - a[1] * b[3]
        uy == b[2] * a[3] - a[2] * b[3]
        vx == h[1] * a[3] - a[1] * h[3]
        vy == h[2] * a[3] - a[2] * h[3]
        dot == ux * vx + uy * vy
    IN  /\ ux * vy - uy * vx = 0
        /\ 0 < dot
        /\ dot * b[3] < (ux * ux + uy * uy) * h[3]

\* m * pitch <= distance(a, b), for m >= 0 and a positive pitch
Reaches(m, a, b) ==
    LET d2 == Dist2(a, b)
    IN  m * m * pitch[1] * pitch[1] * d2[2] <= d2[1] * pitch[2] * pitch[2]

\* n = max(min_num, floor(distance(a, b) / pitch) - 1), stated without floor
IsGapCount(n, a, b) ==
    /\ n >= min_num
    /\ n > min_num => (Reaches(n + 1, a, b) /\ ~Reaches(n + 2, a, b))
    /\ n = min_num => ~Reaches(min_num + 2, a, b)

Occurrences(w, X) == Cardinality({i \in DOMAIN w : w[i] = X})

\* C1 (as claimed): a segment S of the planned path crossed properly by a
\* segment T of another path has a stitch at the crossing point.
C1_StitchAtCrossing ==
    (status = "returned" /\ PitchPositive)
    => \A k \in DOMAIN plan : \A T \in OtherSegs(planned) :
          ProperCrossing(plan[k].S, T)
          => \E h \in Range(ret) : OnSegment(h, plan[k].S) /\ OnSegment(h, T)

\* C1 (amended): the crossing point X is a waypoint of S, so S is split at X
\* into the gaps (previous waypoint, X) and (X, next waypoint), each filled on
\* its own with the number of stitches its own length calls for, all strictly
\* inside the gap; X itself is not among the stitches emitted for S when no
\* other segment meets S at X.
C1_CrossingSplitsSegment ==
    (status = "returned" /\ PitchPositive)
    => \A k \in DOMAIN plan : \A T \in OtherSegs(planned) :
          ProperCrossing(plan[k].S, T)
          => LET w == plan[k].waypoints
                 f == plan[k].fills
             IN  \E i \in 2..(Len(w) - 1) :
                    /\ OnSegment(w[i], T)
                    /\ StrictlyInside(w[i], plan[k].S)
                    /\ Occurrences(w, w[i]) = 1
                       => /\ w[i] \notin Range(plan[k].stitches)
                          /\ IsGapCount(Len(f[i - 1]), w[i - 1], w[i])
                          /\ IsGapCount(Len(f[i]), w[i], w[i + 1])
                          /\ \A h \in Range(f[i - 1]) : Between(h, w[i - 1], w[i])
                          /\ \A h \in Range(f[i]) : Between(h, w[i], w[i + 1])

\* C1 witness: a segment crossed once, off the grid, with stitches in both
\* of its gaps
C1_Witness ==
    /\ status = "returned" /\ PitchPositive
    /\ \E k \in DOMAIN plan : \E T \in OtherSegs(planned) :
          /\ ProperCrossing(plan[k].S, T)
          /\ Len(plan[k].waypoints) = 3
          /\ plan[k].waypoints[2][3] > 1
          /\ Len(plan[k].fills[1]) >= 1
          /\ Len(plan[k].fills[2]) >= 1

\* C2: for a path of at least 2 control points and a positive pitch, the
\* returned stitches start at the first control point, end at the last one
\* and contain all control points in order.
C2_ControlPointsKept ==
    (status = "returned" /\ PitchPositive /\ Len(x_all[planned]) >= 2)
    => /\ ret[1] = ControlPoints(planned)[1]
       /\ ret[Len(ret)] = ControlPoints(planned)[Len(x_all[planned])]
       /\ IsSubseq(ControlPoints(planned), ret)

\* C2 witness: a path with a corner planned beside a path that meets it
C2_Witness ==
    /\ status = "returned" /\ PitchPositive
    /\ Len(x_all) = 2
    /\ Len(x_all[planned]) = 3
    /\ \E k \in DOMAIN plan : Len(plan[k].waypoints) > 2
    /\ Len(ret) > 3

\* C7 (as claimed): a call with pitch <= 0 or a path of fewer than 2 points
\* reports an error, returns no stitch list and appends nothing.
C7_InvalidConfigRejected ==
    (calls = 1 /\ (pitch[1] <= 0 \/ Len(x_all[planned]) < 2))
    => /\ status = "raised"
       /\ pattern = <<>>
       /\ returned = <<>>

\* C8: with a positive pitch every gap holds exactly
\* max(min_num_stitches_per_segment, floor(d / pitch) - 1) interior stitches:
\* never fewer than the minimum, and exactly the minimum in the only gap of
\* a segment shorter than the pitch.
C8_GapCount ==
    (status = "returned" /\ PitchPositive)
    => \A k \in DOMAIN plan :
          LET w == plan[k].waypoints
              f == plan[k].fills
          IN  /\ Len(f) = Len(w) - 1
              /\ \A g \in DOMAIN f :
                    /\ IsGapCount(Len(f[g]), w[g], w[g + 1])
                    /\ Len(f[g]) >= min_num
              /\ (Len(w) = 2 /\ ~Reaches(1, Pt(plan[k].S[1]), Pt(plan[k].S[2])))
                 => Len(f[1]) = min_num

\* C8 witness: a gap bounded by an intersection that holds more than the
\* minimum number of stitches
C8_Witness ==
    /\ status = "returned" /\ PitchPositive
    /\ \E k \in DOMAIN plan :
          /\ Len(plan[k].waypoints) > 2
          /\ \E g \in DOMAIN plan[k].fills : Len(plan[k].fills[g]) > min_num

\* the single segment planned alone is exactly k pitches long
IsMultiple(k) ==
    /\ Reaches(k, ControlPoints(1)[1], ControlPoints(1)[2])
    /\ ~Reaches(k + 1, ControlPoints(1)[1], ControlPoints(1)[2])
    /\ LET d2 == Dist2(ControlPoints(1)[1], ControlPoints(1)[2])
       IN  k * k * pitch[1] * pitch[1] * d2[2] = d2[1] * pitch[2] * pitch[2]

\* C9: one segment of length k * pitch (k >= 2) planned alone with a minimum
\* of 1 gives k + 1 stitches: the start, the points j * pitch from the start
\* along the segment for j = 1..k-1, and the end.
C9_EvenlySpaced ==
    (status = "returned" /\ PitchPositive /\ min_num = 1
        /\ Len(x_all) = 1 /\ Len(x_all[1]) = 2)
    => \A k \in 2..(4 * MaxCoord + 4) :
          IsMultiple(k)
          => /\ Len(ret) = k + 1
             /\ ret[1] = ControlPoints(1)[1]
             /\ ret[k + 1] = ControlPoints(1)[2]
             /\ \A j \in 1..(k - 1) :
                   /\ OnSegment(ret[j + 1], SegOf(x_all, y_all, 1, 1))
                   /\ LET d2 == Dist2(ret[1], ret[j + 1])
                      IN  d2[1] * pitch[2] * pitch[2]
                             = j * j * pitch[1] * pitch[1] * d2[2]

\* C9 witness: a segment four pitches long planned alone
C9_Witness ==
    /\ status = "returned" /\ PitchPositive /\ min_num = 1
    /\ Len(x_all) = 1 /\ Len(x_all[1]) = 2
    /\ IsMultiple(4)
    /\ Len(ret) = 5

\* C10: the pattern holds the concatenation, in call order, of the stitch
\* lists the calls returned, the last of them being the list just returned.
C10_PatternIsConcatenation ==
    /\ pattern = Flatten(returned)
    /\ status = "returned" => (returned # <<>> /\ returned[Len(returned)] = ret)

\* C10 witness: two calls that returned different non-empty stitch lists
C10_Witness ==
    /\ calls = 2
    /\ Len(returned) = 2
    /\ returned[1] # <<>>
    /\ returned[2] # <<>>
    /\ returned[1] # returned[2]

\* C11 (as claimed): a call changes neither x_all, y_all nor the pattern.
C11_NoSideEffect ==
    [][x_all' = x_all /\ y_all' = y_all /\ pattern' = pattern]_vars

\* C11 (amended): a call leaves x_all and y_all as they were; its one side
\* effect is on the pattern, which keeps every stitch it held and gains the
\* stitches the call returns, so later calls see what earlier ones added.
C11_OnlyPatternGrows ==
    [][/\ x_all' = x_all
       /\ y_all' = y_all
       /\ status' = "returned" => pattern' = pattern \o ret'
       /\ status' = "raised" => pattern' = pattern]_vars

\* C11 witness: a second call on a pattern that already holds the stitches of
\* the first
C11_Witness ==
    /\ calls = 2
    /\ status = "returned"
    /\ ret # <<>>
    /\ Len(pattern) > Len(ret)
    /\ SubSeq(pattern, Len(pattern) - Len(ret) + 1, Len(pattern)) = ret

\* --------------------------------------------------- claims: extractor
\* the points of returned path i
OutPoints(i) == [j \in 1..Len(x_all[i]) |-> <<x_all[i][j], y_all[i][j]>>]

\* the points of the i-th parsed path that has at least 2 points, y flipped
\* and scaled, before any de-duplication
InPoints(i) ==
    LET path == NonEmptyPaths(svg_paths)[i]
    IN  [j \in 1..Len(path) |-> <<path[j][1] * scale, (-path[j][2]) * scale>>]

\* C12 (as claimed): every returned path has at least 2 points, with
\* remove_duplicates set or not.
C12_AtLeastTwoPoints ==
    status = "extracted" => \A i \in DOMAIN x_all : Len(x_all[i]) >= 2

\* C13: with remove_duplicates, a returned path has no two equal consecutive
\* points, starts with the original first point, keeps exactly the points
\* that differ from their predecessor, in their original order, and is left
\* as it is by a second de-duplication.
C13_NoSuccessiveDuplicates ==
    (status = "extracted" /\ remove_duplicates)
    => /\ Len(x_all) = Len(NonEmptyPaths(svg_paths))
       /\ \A i \in DOMAIN x_all :
             LET in == InPoints(i)
                 out == OutPoints(i)
             IN  /\ Len(y_all[i]) = Len(x_all[i])
                 /\ \A j \in 1..(Len(out) - 1) : out[j] # out[j + 1]
                 /\ out[1] = in[1]
                 /\ IsSubseq(out, in)
                 /\ Len(out) = 1 + Cardinality({j \in 2..Len(in) : in[j] # in[j - 1]})
                 /\ RemoveDuplicates(x_all[i], y_all[i]) = <<x_all[i], y_all[i]>>

\* C13 witness: a path of three points, two of them distinct, that lost its
\* one successive duplicate
C13_Witness ==
    /\ status = "extracted" /\ remove_duplicates
    /\ \E i \in DOMAIN x_all :
          /\ Len(InPoints(i)) = 3
          /\ Len(OutPoints(i)) = 2
          /\ InPoints(i)[1] # InPoints(i)[3]

\* ------------------------------------------- claims: gaps and ordering
\* position of the rational point h along the segment e, times h[3]
Param(h, e) ==
    Dot(<<h[1] - e[1][1] * h[3], h[2] - e[1][2] * h[3]>>, Sub(e[2], e[1]))

\* position of a along e is not after that of b
ParamLeq(a, b, e) == Param(a, e) * b[3] <= Param(b, e) * a[3]

\* C14 (as claimed): every interior stitch of every gap sits at fraction
\* j/(n+1) of the gap and coincides with neither end of the gap.
C14_StrictlyInsideGap ==
    (status = "returned" /\ PitchPositive)
    => \A k \in DOMAIN plan : \A g \in DOMAIN plan[k].fills :
          LET a == plan[k].waypoints[g]
              b == plan[k].waypoints[g + 1]
              f == plan[k].fills[g]
          IN  \A j \in DOMAIN f :
                 /\ f[j] = Lerp(a, b, j, Len(f) + 1)
                 /\ f[j] # a
                 /\ f[j] # b

\* C15 (as claimed): the sorted waypoints of every segment S start at
\* S.start, end at S.end and never step back along S, and neither do the
\* stitches emitted for S.
C15_WaypointsInTravelOrder ==
    (status = "returned" /\ PitchPositive)
    => \A k \in DOMAIN plan :
          LET S == plan[k].S
              w == plan[k].waypoints
              st == plan[k].stitches
          IN  /\ w[1] = Pt(S[1])
              /\ w[Len(w)] = Pt(S[2])
              /\ \A i \in 1..(Len(w) - 1) : ParamLeq(w[i], w[i + 1], S)
              /\ \A i \in 1..(Len(st) - 1) : ParamLeq(st[i], st[i + 1], S)
              /\ \A i \in DOMAIN st : OnSegment(st[i], S)

\* the positions of gap g of segment k: its two ends with its stitches between
GapPositions(k, g) ==
    <<plan[k].waypoints[g]>> \o plan[k].fills[g] \o <<plan[k].waypoints[g + 1]>>

\* distance(a, b) < 3/2 * pitch
CloserThanPitchAndHalf(a, b) ==
    LET d2 == Dist2(a, b)
    IN  4 * d2[1] * pitch[2] * pitch[2] < 9 * pitch[1] * pitch[1] * d2[2]

\* C16: with a positive pitch and a minimum of 1, two consecutive positions
\* of a gap are always less than 1.5 pitches apart.
C16_SpacingBelowPitchAndHalf ==
    (status = "returned" /\ PitchPositive /\ min_num = 1)
    => \A k \in DOMAIN plan : \A g \in DOMAIN plan[k].fills :
          LET pos == GapPositions(k, g)
          IN  \A i \in 1..(Len(pos) - 1) : CloserThanPitchAndHalf(pos[i], pos[i + 1])

\* C16 witness: a gap with several stitches spaced farther apart than the pitch
C16_Witness ==
    /\ status = "returned" /\ PitchPositive /\ min_num = 1
    /\ \E k \in DOMAIN plan : \E g \in DOMAIN plan[k].fills :
          /\ Len(plan[k].fills[g]) >= 2
          /\ ~Reaches(Len(plan[k].fills[g]) + 2,
                      plan[k].waypoints[g], plan[k].waypoints[g + 1])
          /\ LET pos == GapPositions(k, g)
             IN  Reaches(1, pos[1], pos[2]) /\ pos[1] # pos[2]
                 /\ Dist2(pos[1], pos[2])[1] * pitch[2] * pitch[2]
                       > pitch[1] * pitch[1] * Dist2(pos[1], pos[2])[2]

\* C17: for two non-degenerate segments the answer does not depend on the
\* order of the arguments: None both ways, or the same point both ways.
C17_Symmetric ==
    (result.called /\ NonDegenerate(endpoints_1) /\ NonDegenerate(endpoints_2))
    => result.point = get_segments_intersection(endpoints_2, endpoints_1).point

\* C17 witness: colinear segments, one inside the other with a shared
\* endpoint, answered with a point that is no endpoint of either
C17_Witness ==
    /\ result.called
    /\ NonDegenerate(endpoints_1) /\ NonDegenerate(endpoints_2)
    /\ result.colinear
    /\ result.npoints = 3
    /\ result.point # None
    /\ result.point \notin {Pt(endpoints_1[1]), Pt(endpoints_1[2]),
                            Pt(endpoints_2[1]), Pt(endpoints_2[2])}

====
